---- MODULE Spec2Model ----
(***************************************************************************)
(* AH-share premium monitor.                                               *)
(*                                                                         *)
(*   get_ah_premium_data.py    get_ah_shhk_connect_stocks: the stock pool; *)
(*                             get_ah_premium_data: joins A price, H price *)
(*                             and FX rate and computes the premium        *)
(*   continuous_monitor.py     create_pivot_table and main: the            *)
(*                             incremental update of the four-sheet report *)
(*   get_history_premium_data.py  calculate_premium_statistics: the        *)
(*                             summary row of each stock                   *)
(*                                                                         *)
(* Five specifications share the definitions below:                        *)
(*   SpecPremium  one call of get_ah_premium_data on bounded inputs        *)
(*   SpecPivot    create_pivot_table and the column concatenation of main  *)
(*                on bounded long-format tables                            *)
(*   Spec         repeated runs of continuous_monitor.main against a       *)
(*                provider and the report file                             *)
(*   SpecPool     one call of get_ah_shhk_connect_stocks                   *)
(*   SpecStats    one call of calculate_premium_statistics on bounded      *)
(*                tables                                                   *)
(***************************************************************************)
EXTENDS Integers, Sequences, FiniteSets, TLC

(***************************************************************************)
(* Bounds of the model.                                                    *)
(***************************************************************************)
\* stock names are 1..NumStocks (their order is the order of the names)
NumStocks == 2
\* the stocks the resolver can put into the pool in Spec are 1..MaxPool
MaxPool == 1
\* the last calendar day the clock of Spec reaches
MaxDay == 10
\* runs of main in one behaviour of Spec
MaxRuns == 3
\* rows of a long-format table in SpecPivot
MaxRows == 3
\* the last date of a long-format table in SpecPivot
MaxPivotDay == 10
\* H shares the provider can list in SpecPool
NumListed == 3
\* rows of the detailed data in SpecStats
MaxStatRows == 5

\* "2024-01-01", the start date of a first run, as a day number
DefaultStartDay == 9

(***************************************************************************)
(* Floating-point values.  A float is a fraction <<n, d>> in lowest terms  *)
(* with d >= 0; d = 0 holds the IEEE specials: <<1,0>> is inf, <<-1,0>> is *)
(* -inf and <<0,0>> is NaN, which pandas treats as the missing value.      *)
(* Rounding is not modelled.                                               *)
(***************************************************************************)
Num(n) == <<n, 1>>
NaN == <<0, 0>>
Inf == <<1, 0>>

isnull(v) == v = NaN

Abs(n) == IF n < 0 THEN -n ELSE n

RECURSIVE Gcd(_, _)
Gcd(a, b) == IF b = 0 THEN a ELSE Gcd(b, a % b)

Normalize(n, d) ==
    LET n1 == IF d < 0 THEN -n ELSE n
        d1 == Abs(d)
        g  == Gcd(Abs(n1), d1)
    IN  IF g = 0 THEN NaN ELSE <<n1 \div g, d1 \div g>>

\* a / b on floats: x/0 is inf or -inf, 0/0 is NaN, NaN propagates
FDiv(a, b) == Normalize(a[1] * b[2], a[2] * b[1])

\* a - b on floats, for a finite b
FSub(a, b) == Normalize(a[1] * b[2] - b[1] * a[2], a[2] * b[2])

(***************************************************************************)
(* Date strings.  A date is a day number; its text is two zero-padded      *)
(* decimal digits, which stands for the fixed-width '%Y-%m-%d' text.       *)
(* Strings compare lexicographically, as Python compares them.             *)
(***************************************************************************)
strftime(day) == <<day \div 10, day % 10>>

to_datetime(s) == s[1] * 10 + s[2]

RECURSIVE StrLess(_, _)
StrLess(a, b) ==
    IF a = <<>> THEN b # <<>>
    ELSE IF b = <<>> THEN FALSE
    ELSE IF Head(a) # Head(b) THEN Head(a) < Head(b)
    ELSE StrLess(Tail(a), Tail(b))

StrGreater(a, b) == StrLess(b, a)

\* the elements of a set of strings in ascending order
RECURSIVE SortedStrings(_)
SortedStrings(S) ==
    IF S = {} THEN <<>>
    ELSE LET m == CHOOSE x \in S : \A y \in S : y = x \/ StrLess(x, y)
         IN  <<m>> \o SortedStrings(S \ {m})

\* the elements of a set of stock names in ascending order
RECURSIVE SortedNames(_)
SortedNames(S) ==
    IF S = {} THEN <<>>
    ELSE LET m == CHOOSE x \in S : \A y \in S : x <= y
         IN  <<m>> \o SortedNames(S \ {m})

Range(s) == {s[i] : i \in 1..Len(s)}

(***************************************************************************)
(* The provider.  A w.wsd answer holds ErrorCode, Codes, Times and Data,   *)
(* one list of values per code, one value per time.  Stock s of the pool   *)
(* has the name s, the A-share code 100 + s and the H-share code 200 + s.  *)
(***************************************************************************)
Stocks == 1..NumStocks

ACode(s) == 100 + s
HCode(s) == 200 + s

PoolEntry(s) == [H_stock_code |-> HCode(s), A_stock_code |-> ACode(s), stock_name |-> s]

\* a stock pool holding the stocks of S, in the order of their H codes
PoolOf(S) == LET names == SortedNames(S)
             IN  [i \in 1..Len(names) |-> PoolEntry(names[i])]

\* the days of a set in ascending order
SortedDays(S) == SortedNames(S)

\* the answer of w.wsd for the codes and the days asked, with the values f
WsdAnswer(err, codes, days, f) ==
    [ErrorCode |-> err,
     Codes     |-> codes,
     Times     |-> SortedDays(days),
     Data      |-> IF days = {} THEN <<>>
                   ELSE [i \in 1..Len(codes) |->
                           [j \in 1..Cardinality(days) |->
                               f[codes[i], SortedDays(days)[j]]]]]

(***************************************************************************)
(* get_ah_premium_data                                                     *)
(***************************************************************************)
\* a query that has not been issued
NotQueried == [ErrorCode |-> -1, Codes |-> <<>>, Times |-> <<>>, Data |-> <<>>]

\* a failure test that looks at the payload only
WsdFailedNoErrorCode(data) ==
    \/ data.Data = <<>>
    \/ data.Data[1] = <<>>

\* the failure test of both queries: an error code or an empty payload
WsdFailed(data) ==
    \/ data.ErrorCode # 0
    \/ data.Data = <<>>
    \/ data.Data[1] = <<>>

\* pd.DataFrame(Data, index=Codes, columns=Times).T in long form
WsdFrame(data) ==
    {[date |-> data.Times[j], code |-> data.Codes[i], price |-> data.Data[i][j]] :
        i \in 1..Len(data.Codes), j \in 1..Len(data.Times)}

\* the one value of a left join: the matching value, NaN without a match
LeftValue(matches) == IF matches = {} THEN NaN ELSE CHOOSE v \in matches : TRUE

\* the premium without the guard on a missing or zero A price
PremiumRateNoGuard(A_price, H_price, exchange_rate) ==
    FSub(FDiv(FDiv(H_price, exchange_rate), A_price), Num(1))

\* np.where(A_price.isnull() | (A_price == 0), nan, H / fx / A - 1)
PremiumRate(A_price, H_price, exchange_rate) ==
    IF isnull(A_price) \/ A_price = Num(0)
    THEN NaN
    ELSE FSub(FDiv(FDiv(H_price, exchange_rate), A_price), Num(1))

\* steps 3 and 4: melt, the three merges and the premium column
Integrate(stock_pool_df, price_df, exchange_rate_df) ==
    LET all_a_codes == {stock_pool_df[i].A_stock_code : i \in 1..Len(stock_pool_df)}
        all_h_codes == {stock_pool_df[i].H_stock_code : i \in 1..Len(stock_pool_df)}
        a_price_df  == {r \in price_df : r.code \in all_a_codes}
        h_price_df  == {r \in price_df : r.code \in all_h_codes}
        H_of(date, h) == LeftValue({r.price : r \in {x \in h_price_df :
                                        x.date = date /\ x.code = h}})
        Fx_of(date)   == LeftValue({r.price : r \in {x \in exchange_rate_df :
                                        x.date = date}})
    IN  {[date            |-> a.date,
          stock_name      |-> stock_pool_df[i].stock_name,
          A_stock_code    |-> a.code,
          H_stock_code    |-> stock_pool_df[i].H_stock_code,
          A_price         |-> a.price,
          H_price         |-> H_of(a.date, stock_pool_df[i].H_stock_code),
          exchange_rate   |-> Fx_of(a.date),
          HA_premium_rate |-> PremiumRate(a.price,
                                 H_of(a.date, stock_pool_df[i].H_stock_code),
                                 Fx_of(a.date))] :
            <<a, i>> \in {p \in a_price_df \X (1..Len(stock_pool_df)) :
                            p[1].code = stock_pool_df[p[2]].A_stock_code}}

\* a dropna that forgets the H price
DropIncompleteKeepH(final_data) ==
    {r \in final_data : ~isnull(r.A_price) /\ ~isnull(r.exchange_rate)}

\* final_data.dropna(subset=['A_price', 'H_price', 'exchange_rate'])
DropIncomplete(final_data) ==
    {r \in final_data : ~isnull(r.A_price) /\ ~isnull(r.H_price)
                        /\ ~isnull(r.exchange_rate)}

RowBefore(r, q) ==
    \/ StrLess(r.date, q.date)
    \/ r.date = q.date /\ r.stock_name < q.stock_name

\* sort_values(by=['date', 'stock_name']) of rows with distinct keys
RECURSIVE SortRows(_)
SortRows(S) ==
    IF S = {} THEN <<>>
    ELSE LET m == CHOOSE x \in S : \A y \in S : y = x \/ ~RowBefore(y, x)
         IN  <<m>> \o SortRows(S \ {m})

\* the date column as '%Y-%m-%d' text, the rows sorted by date and name
FormatAndSort(final_data) ==
    SortRows({[r EXCEPT !.date = strftime(r.date)] : r \in final_data})

\* the empty DataFrame
EmptyFrame == <<>>

\* lines 216-231: clean, and return the empty frame if no row is left
CleanAndReturn(final_data) ==
    IF DropIncomplete(final_data) = {} THEN EmptyFrame
    ELSE FormatAndSort(DropIncomplete(final_data))

\* the whole call: the result for the answers the provider gives
get_ah_premium_data(WIND_AVAILABLE, stock_pool_df, price_data, exchange_rate_data) ==
    IF ~WIND_AVAILABLE THEN EmptyFrame
    ELSE IF stock_pool_df = <<>> THEN EmptyFrame
    ELSE IF WsdFailed(price_data) THEN EmptyFrame
    ELSE IF WsdFailed(exchange_rate_data) THEN EmptyFrame
    ELSE CleanAndReturn(Integrate(stock_pool_df, WsdFrame(price_data),
                                  WsdFrame(exchange_rate_data)))

(***************************************************************************)
(* Wide tables.  A table holds the row labels (index), the column labels   *)
(* (columns) and, per column, one value per row (values).  A column label  *)
(* is a date text; read_excel appends a digit k to a repeated label        *)
(* ('2024-01-05.1'), which is no date text any more.                       *)
(***************************************************************************)
MetricColumns == <<"HA_premium_rate", "A_price", "H_price", "exchange_rate">>

\* df.drop_duplicates(subset=['stock_name', 'date']) keeping the last row
DropDuplicatesKeepLast(df) ==
    {df[i] : i \in {k \in 1..Len(df) :
        \A j \in (k + 1)..Len(df) :
            ~(df[j].stock_name = df[k].stock_name /\ df[j].date = df[k].date)}}

\* df.drop_duplicates(subset=['stock_name', 'date']): the first row of each
\* (stock_name, date) stays
DropDuplicates(df) ==
    {df[i] : i \in {k \in 1..Len(df) :
        \A j \in 1..(k - 1) :
            ~(df[j].stock_name = df[k].stock_name /\ df[j].date = df[k].date)}}

\* the groups of pivot_table: the mean of the one value of each
\* (stock_name, date), the groups without a value dropped (dropna=True)
Agged(df_dedup, value_col) == {r \in df_dedup : ~isnull(r[value_col])}

\* pivot_table(index='stock_name', columns='date', values=value_col): rows
\* and columns are the sorted labels of the groups that are left
PivotTable(df_dedup, value_col) ==
    LET agged   == Agged(df_dedup, value_col)
        index   == SortedNames({r.stock_name : r \in agged})
        columns == SortedStrings({r.date : r \in agged})
    IN  [index   |-> index,
         columns |-> columns,
         values  |-> [c \in 1..Len(columns) |->
                        [i \in 1..Len(index) |->
                            LeftValue({r[value_col] : r \in {x \in agged :
                                x.stock_name = index[i] /\ x.date = columns[c]}})]]]

\* lines 32-40
create_pivot_table(df, value_col) ==
    LET pivot == PivotTable(DropDuplicates(df), value_col)
    IN  [pivot EXCEPT !.columns =
            [c \in 1..Len(pivot.columns) |-> strftime(to_datetime(pivot.columns[c]))]]

\* the caller's df after a drop_duplicates(inplace=True): its first rows
DfAfterPivotInPlace(df) ==
    LET kept == {k \in 1..Len(df) :
                    \A j \in 1..(k - 1) :
                        ~(df[j].stock_name = df[k].stock_name /\ df[j].date = df[k].date)}
        order == SortedNames(kept)
    IN  [i \in 1..Len(order) |-> df[order[i]]]

\* the caller's df after create_pivot_table(df, value_col) returned:
\* drop_duplicates and pivot_table build new frames, and the column labels
\* are assigned on the new pivot, so df keeps its rows
DfAfterPivot(df) == df

\* the position of a label in an index, 0 if it is absent
Position(index, label) ==
    IF \E i \in 1..Len(index) : index[i] = label
    THEN CHOOSE i \in 1..Len(index) : index[i] = label
    ELSE 0

\* a table on another index: the rows in the order of new_index, NaN for a
\* row the table does not hold
Reindex(table, new_index) ==
    [index   |-> new_index,
     columns |-> table.columns,
     values  |-> [c \in 1..Len(table.columns) |->
                    [i \in 1..Len(new_index) |->
                        IF Position(table.index, new_index[i]) = 0 THEN NaN
                        ELSE table.values[c][Position(table.index, new_index[i])]]]]

\* labels of b that a does not hold, in the order of b
RECURSIVE NewLabels(_, _)
NewLabels(a, b) ==
    IF b = <<>> THEN <<>>
    ELSE IF Head(b) \in Range(a) THEN NewLabels(a, Tail(b))
    ELSE <<Head(b)>> \o NewLabels(a \o <<Head(b)>>, Tail(b))

\* the index of an inner join: the labels both indexes hold
IntersectIndex(a, b) == SelectSeq(a, LAMBDA x : x \in Range(b))

\* the union of two indexes that pd.concat builds with sort=False: the
\* labels of the first, then the new labels of the second
UnionIndex(a, b) == a \o NewLabels(a, b)

\* pd.concat([existing, new], axis=1) that overwrites a date it already holds
ConcatOverwrite(existing, new) ==
    LET index == UnionIndex(existing.index, new.index)
        e     == Reindex(existing, index)
        n     == Reindex(new, index)
        kept  == {c \in 1..Len(e.columns) : e.columns[c] \notin Range(n.columns)}
        keep  == SortedNames(kept)
    IN  [index   |-> index,
         columns |-> [c \in 1..Len(keep) |-> e.columns[keep[c]]] \o n.columns,
         values  |-> [c \in 1..Len(keep) |-> e.values[keep[c]]] \o n.values]

\* pd.concat([existing, new], axis=1): an outer join on the row labels, the
\* columns of new after the columns of existing
Concat(existing, new) ==
    LET index == UnionIndex(existing.index, new.index)
        e     == Reindex(existing, index)
        n     == Reindex(new, index)
    IN  [index   |-> index,
         columns |-> e.columns \o n.columns,
         values  |-> e.values \o n.values]

\* the name read_excel gives the next column: a label already read gets the
\* first free suffix
RECURSIVE FreeName(_, _, _)
FreeName(done, label, k) ==
    IF label \o <<k>> \in Range(done) THEN FreeName(done, label, k + 1)
    ELSE label \o <<k>>

RECURSIVE MangleDupes(_, _)
MangleDupes(done, rest) ==
    IF rest = <<>> THEN done
    ELSE IF Head(rest) \in Range(done)
         THEN MangleDupes(done \o <<FreeName(done, Head(rest), 1)>>, Tail(rest))
         ELSE MangleDupes(done \o <<Head(rest)>>, Tail(rest))

\* pd.read_excel(file, sheet_name=sheet, index_col=0) of a sheet that
\* to_excel wrote: the same rows and values, repeated labels renamed
read_excel(table) == [table EXCEPT !.columns = MangleDupes(<<>>, table.columns)]

\* lines 100-104: the four new tables, in the order of SHEET_NAMES
NewPivots(long_df) ==
    [k \in 1..4 |-> create_pivot_table(long_df, MetricColumns[k])]

\* lines 106-114: existing_data is <<>> when there is nothing to merge
MergePivots(existing_data, new_pivots) ==
    IF existing_data # <<>>
    THEN [k \in 1..4 |-> Concat(existing_data[k], new_pivots[k])]
    ELSE new_pivots

(***************************************************************************)
(* State.                                                                  *)
(***************************************************************************)
VARIABLES
    \* SpecPivot: a long-format table, the split date, and the tables made
    pv_pc, pv_long, pv_input, pv_split, pv_full, pv_again, pv_merged,
    \* SpecPremium: one call of get_ah_premium_data
    p_pc, p_pool, p_avail, p_price_data, p_exchange_rate_data,
    p_price_df, p_rate_df, p_final_data, p_result,
    \* Spec: the clock, the provider, the report file and the locals of main
    today, trading_days, WIND_AVAILABLE, file, pc, runs,
    stock_pool, start_date_str, existing_data, latest_trade_day_data,
    long_df, final_pivots,
    \* Spec: what the run in progress has done so far
    file_before, read_failed_at, fetch_issued, outcome,
    \* SpecPool: one call of get_ah_shhk_connect_stocks
    pl_pc, pl_connect, pl_trade_day_data, pl_ah_stocks_data, pl_shhk_connect_data,
    pl_intersection_codes, pl_stock_info_data, pl_final_df,
    \* SpecStats: one call of calculate_premium_statistics
    st_pc, st_none, st_df, st_stats

pivotVars   == <<pv_pc, pv_long, pv_input, pv_split, pv_full, pv_again, pv_merged>>
premiumVars == <<p_pc, p_pool, p_avail, p_price_data, p_exchange_rate_data,
                 p_price_df, p_rate_df, p_final_data, p_result>>
provider    == <<today, trading_days, WIND_AVAILABLE>>
locals      == <<stock_pool, start_date_str, existing_data, latest_trade_day_data,
                 long_df, final_pivots>>
history     == <<file_before, read_failed_at, fetch_issued, outcome>>
mainVars    == <<provider, file, pc, runs, locals, history>>
poolVars    == <<pl_pc, pl_connect, pl_trade_day_data, pl_ah_stocks_data,
                 pl_shhk_connect_data, pl_intersection_codes, pl_stock_info_data,
                 pl_final_df>>
statsVars   == <<st_pc, st_none, st_df, st_stats>>
vars == <<pivotVars, premiumVars, mainVars, poolVars, statsVars>>

\* the variables of a specification that is not running
PivotIdle ==
    /\ pv_pc = "off" /\ pv_long = <<>> /\ pv_input = <<>> /\ pv_split = 0
    /\ pv_full = <<>> /\ pv_again = <<>> /\ pv_merged = <<>>

PremiumIdle ==
    /\ p_pc = "off" /\ p_pool = <<>> /\ p_avail = FALSE
    /\ p_price_data = <<>> /\ p_exchange_rate_data = <<>>
    /\ p_price_df = {} /\ p_rate_df = {} /\ p_final_data = {} /\ p_result = <<>>

MainIdle ==
    /\ today = 0 /\ trading_days = {} /\ WIND_AVAILABLE = FALSE /\ file = <<>>
    /\ pc = "off" /\ runs = 0
    /\ stock_pool = <<>> /\ start_date_str = <<>> /\ existing_data = <<>>
    /\ latest_trade_day_data = <<>> /\ long_df = <<>> /\ final_pivots = <<>>
    /\ file_before = <<>> /\ read_failed_at = 0 /\ fetch_issued = <<>>
    /\ outcome = "off"

PoolIdle ==
    /\ pl_pc = "off" /\ pl_connect = "off"
    /\ pl_trade_day_data = <<>> /\ pl_ah_stocks_data = <<>>
    /\ pl_shhk_connect_data = <<>> /\ pl_intersection_codes = <<>>
    /\ pl_stock_info_data = <<>> /\ pl_final_df = <<>>

StatsIdle ==
    /\ st_pc = "off" /\ st_none = FALSE /\ st_df = <<>> /\ st_stats = <<>>

(***************************************************************************)
(* SpecPivot: long-format tables built row by row, then pivoted whole, or  *)
(* split at a date, pivoted per window and concatenated as main does.      *)
(***************************************************************************)
PivotDays == (MaxPivotDay - 1)..MaxPivotDay

\* the (A price, H price, FX rate) of a row
PivotQuotes == {<<0, 3, 2>>, <<2, 3, 2>>, <<4, 5, 1>>}

LongRow(s, day, q) ==
    [date            |-> strftime(day),
     stock_name      |-> s,
     A_stock_code    |-> ACode(s),
     H_stock_code    |-> HCode(s),
     A_price         |-> Num(q[1]),
     H_price         |-> Num(q[2]),
     exchange_rate   |-> Num(q[3]),
     HA_premium_rate |-> PremiumRate(Num(q[1]), Num(q[2]), Num(q[3]))]

\* the rows of df with a date up to, or after, the text of day
RECURSIVE RowsUpTo(_, _)
RowsUpTo(df, day) ==
    IF df = <<>> THEN <<>>
    ELSE IF ~StrGreater(Head(df).date, strftime(day))
         THEN <<Head(df)>> \o RowsUpTo(Tail(df), day)
         ELSE RowsUpTo(Tail(df), day)

RECURSIVE RowsAfter(_, _)
RowsAfter(df, day) ==
    IF df = <<>> THEN <<>>
    ELSE IF StrGreater(Head(df).date, strftime(day))
         THEN <<Head(df)>> \o RowsAfter(Tail(df), day)
         ELSE RowsAfter(Tail(df), day)

PvInit ==
    /\ pv_pc = "build"
    /\ pv_long = <<>>
    /\ pv_input = <<>>
    /\ pv_split = 0
    /\ pv_full = <<>>
    /\ pv_again = <<>>
    /\ pv_merged = <<>>
    /\ PremiumIdle
    /\ MainIdle
    /\ PoolIdle
    /\ StatsIdle

PvAppend ==
    /\ pv_pc = "build"
    /\ Len(pv_long) < MaxRows
    /\ \E s \in Stocks, day \in PivotDays, q \in PivotQuotes :
          pv_long' = Append(pv_long, LongRow(s, day, q))
    /\ UNCHANGED <<pv_pc, pv_input, pv_split, pv_full, pv_again, pv_merged,
                   premiumVars, mainVars, poolVars, statsVars>>

\* the four tables of the whole table; pv_input keeps the table as it was
\* handed to create_pivot_table, pv_long is the caller's df after the calls
PvPivot ==
    /\ pv_pc = "build"
    /\ pv_long # <<>>
    /\ pv_input' = pv_long
    /\ pv_full' = NewPivots(pv_long)
    /\ pv_long' = DfAfterPivot(pv_long)
    /\ pv_pc' = "pivoted"
    /\ UNCHANGED <<pv_split, pv_again, pv_merged,
                   premiumVars, mainVars, poolVars, statsVars>>

\* the same df pivoted once more
PvPivotAgain ==
    /\ pv_pc = "pivoted"
    /\ pv_again' = NewPivots(pv_long)
    /\ pv_long' = DfAfterPivot(pv_long)
    /\ pv_pc' = "again"
    /\ UNCHANGED <<pv_input, pv_split, pv_full, pv_merged,
                   premiumVars, mainVars, poolVars, statsVars>>

\* the tables of the rows up to a date, saved and read back, merged with the
\* tables of the rows after it
PvMerge ==
    /\ pv_pc = "build"
    /\ \E day \in PivotDays :
          /\ RowsUpTo(pv_long, day) # <<>>
          /\ RowsAfter(pv_long, day) # <<>>
          /\ pv_split' = day
          /\ pv_merged' = MergePivots(
                 [k \in 1..4 |-> read_excel(NewPivots(RowsUpTo(pv_long, day))[k])],
                 NewPivots(RowsAfter(pv_long, day)))
    /\ pv_full' = NewPivots(pv_long)
    /\ pv_pc' = "merged"
    /\ UNCHANGED <<pv_long, pv_input, pv_again,
                   premiumVars, mainVars, poolVars, statsVars>>

PvNext == PvAppend \/ PvPivot \/ PvPivotAgain \/ PvMerge

SpecPivot == PvInit /\ [][PvNext]_vars

PremiumDays == {9, 10}

\* the code of the FX fixing series, "HKDCNYFIX.HKS"
FxCode == 300

\* the (A price, H price) the provider may hold for a stock on a day
PremiumQuotes == {<<Num(2), Num(3)>>, <<Num(0), Num(3)>>, <<NaN, Num(3)>>,
                  <<Num(2), NaN>>,    <<Num(0), NaN>>}

\* the FX rates the provider may hold for a day
PremiumRates == {NaN, Num(0), Num(2)}

\* all_codes: the A codes of the pool, then its H codes
AllCodes(stock_pool_df) ==
    [i \in 1..Len(stock_pool_df) |-> stock_pool_df[i].A_stock_code]
    \o [i \in 1..Len(stock_pool_df) |-> stock_pool_df[i].H_stock_code]

\* the values of a price answer: quotes[s, day] for the stock s of the code
QuoteValues(quotes) ==
    [cd \in ({ACode(s) : s \in Stocks} \cup {HCode(s) : s \in Stocks}) \X PremiumDays |->
        IF cd[1] < 200 THEN quotes[cd[1] - 100, cd[2]][1]
                       ELSE quotes[cd[1] - 200, cd[2]][2]]

PrInit ==
    /\ p_pc = "start"
    /\ p_pool \in {PoolOf(S) : S \in SUBSET Stocks}
    /\ p_avail \in BOOLEAN
    /\ p_price_data = NotQueried
    /\ p_exchange_rate_data = NotQueried
    /\ p_price_df = {}
    /\ p_rate_df = {}
    /\ p_final_data = {}
    /\ p_result = EmptyFrame
    /\ PivotIdle
    /\ MainIdle
    /\ PoolIdle
    /\ StatsIdle

\* lines 153-159: no provider, or no stock pool
PrStart ==
    /\ p_pc = "start"
    /\ p_pc' = IF ~p_avail \/ p_pool = <<>> THEN "done" ELSE "wsd_price"
    /\ UNCHANGED <<p_pool, p_avail, p_price_data, p_exchange_rate_data,
                   p_price_df, p_rate_df, p_final_data, p_result,
                   pivotVars, mainVars, poolVars, statsVars>>

\* lines 166-179: the price query
PrQueryPrice ==
    /\ p_pc = "wsd_price"
    /\ \E err \in {0, 1}, days \in SUBSET PremiumDays,
          quotes \in [Stocks \X PremiumDays -> PremiumQuotes] :
          LET price_data == WsdAnswer(err, AllCodes(p_pool), days,
                                      QuoteValues(quotes))
          IN  /\ p_price_data' = price_data
              /\ IF WsdFailed(price_data)
                 THEN p_pc' = "done" /\ p_price_df' = p_price_df
                 ELSE p_pc' = "wsd_rate" /\ p_price_df' = WsdFrame(price_data)
    /\ UNCHANGED <<p_pool, p_avail, p_exchange_rate_data, p_rate_df, p_final_data,
                   p_result, pivotVars, mainVars, poolVars, statsVars>>

\* lines 182-196: the FX query
PrQueryRate ==
    /\ p_pc = "wsd_rate"
    /\ \E err \in {0, 1}, days \in SUBSET PremiumDays,
          rates \in [{FxCode} \X PremiumDays -> PremiumRates] :
          LET exchange_rate_data == WsdAnswer(err, <<FxCode>>, days, rates)
          IN  /\ p_exchange_rate_data' = exchange_rate_data
              /\ IF WsdFailed(exchange_rate_data)
                 THEN p_pc' = "done" /\ p_rate_df' = p_rate_df
                 ELSE p_pc' = "integrate" /\ p_rate_df' = WsdFrame(exchange_rate_data)
    /\ UNCHANGED <<p_pool, p_avail, p_price_data, p_price_df, p_final_data,
                   p_result, pivotVars, mainVars, poolVars, statsVars>>

\* lines 201-214: the joins and the premium column
PrIntegrate ==
    /\ p_pc = "integrate"
    /\ p_final_data' = Integrate(p_pool, p_price_df, p_rate_df)
    /\ p_pc' = "clean"
    /\ UNCHANGED <<p_pool, p_avail, p_price_data, p_exchange_rate_data,
                   p_price_df, p_rate_df, p_result,
                   pivotVars, mainVars, poolVars, statsVars>>

\* lines 216-231: the clean-up and the return
PrClean ==
    /\ p_pc = "clean"
    /\ p_result' = CleanAndReturn(p_final_data)
    /\ p_pc' = "done"
    /\ UNCHANGED <<p_pool, p_avail, p_price_data, p_exchange_rate_data,
                   p_price_df, p_rate_df, p_final_data,
                   pivotVars, mainVars, poolVars, statsVars>>

PrNext == PrStart \/ PrQueryPrice \/ PrQueryRate \/ PrIntegrate \/ PrClean

SpecPremium == PrInit /\ [][PrNext]_vars

(***************************************************************************)
(* Claims about get_ah_premium_data (SpecPremium).                         *)
(***************************************************************************)
\* (premium + 1) * A_price * exchange_rate = H_price, on finite fractions
PremiumEquation(r) ==
    /\ r.HA_premium_rate[2] > 0
    /\ (r.HA_premium_rate[1] + r.HA_premium_rate[2])
          * r.A_price[1] * r.exchange_rate[1] * r.H_price[2]
       = r.H_price[1] * r.HA_premium_rate[2] * r.A_price[2] * r.exchange_rate[2]

C10_RowsComplete ==
    p_pc = "done" =>
        /\ \A i \in 1..Len(p_result) :
              /\ ~isnull(p_result[i].A_price)
              /\ ~isnull(p_result[i].H_price)
              /\ ~isnull(p_result[i].exchange_rate)
        /\ Len(p_result) = Cardinality({r \in p_final_data :
              ~isnull(r.A_price) /\ ~isnull(r.H_price) /\ ~isnull(r.exchange_rate)})

\* a call that returns rows after dropping a row without H price, one
\* without A price and one without rate
C10_Witness ==
    /\ p_pc = "done"
    /\ p_result # EmptyFrame
    /\ \E r \in p_final_data : isnull(r.H_price) /\ ~isnull(r.A_price)
                               /\ ~isnull(r.exchange_rate)
    /\ \E r \in p_final_data : isnull(r.exchange_rate)
    /\ \E r \in p_final_data : isnull(r.A_price)

\* an answer that was given and reports an error or carries no value
QueryFailed(data) ==
    /\ data # NotQueried
    /\ \/ data.ErrorCode # 0
       \/ \A i \in 1..Len(data.Data) : Len(data.Data[i]) = 0

\* C12: get_ah_premium_data returns the empty result when the provider is
\* unavailable, when the stock pool is empty, and when the price query or
\* the FX query answers with a non-zero error code or an empty payload; it
\* returns at once: after a failed price query no FX query is issued, and
\* after a failed query of either kind nothing is joined.
C12_FailureReturnsEmpty ==
    /\ (~p_avail \/ p_pool = <<>>) =>
          /\ p_pc \in {"start", "done"}
          /\ p_price_data = NotQueried
          /\ p_result = EmptyFrame
    /\ QueryFailed(p_price_data) =>
          /\ p_pc = "done"
          /\ p_exchange_rate_data = NotQueried
          /\ p_final_data = {}
          /\ p_result = EmptyFrame
    /\ QueryFailed(p_exchange_rate_data) =>
          /\ p_pc = "done"
          /\ p_final_data = {}
          /\ p_result = EmptyFrame

\* a call whose price query answered well and whose FX query answered with
\* an error code next to a full payload
C12_Witness ==
    /\ p_pc = "done"
    /\ p_avail /\ p_pool # <<>>
    /\ p_price_data.ErrorCode = 0 /\ Len(p_price_data.Times) = 2
    /\ p_exchange_rate_data.ErrorCode = 1
    /\ p_exchange_rate_data.Data = <<<<Num(2), Num(2)>>>>

(***************************************************************************)
(* Claims about create_pivot_table and the merge (SpecPivot).              *)
(***************************************************************************)
\* the value of a table for a stock under the first column with a label
CellOf(table, s, label) ==
    IF Position(table.index, s) = 0 \/ label \notin Range(table.columns)
    THEN NaN
    ELSE table.values[CHOOSE c \in 1..Len(table.columns) :
                         /\ table.columns[c] = label
                         /\ \A b \in 1..(c - 1) : table.columns[b] # label]
                     [Position(table.index, s)]

\* two tables with the same columns, the same stocks and the same cells
SameCells(t1, t2) ==
    /\ t1.columns = t2.columns
    /\ Range(t1.index) = Range(t2.index)
    /\ \A s \in Range(t1.index), c \in 1..Len(t1.columns) :
          t1.values[c][Position(t1.index, s)] = t2.values[c][Position(t2.index, s)]

IsFirstOfKey(df, i) ==
    \A j \in 1..(i - 1) :
        ~(df[j].stock_name = df[i].stock_name /\ df[j].date = df[i].date)

\* C5: for every (stock_name, date) of the input and each of the four
\* metrics, the cell of the wide table holds the value of the first input
\* row with that stock_name and date (no value when that row has none).
C5_FirstRowWins ==
    pv_pc = "pivoted" =>
        \A i \in 1..Len(pv_long) : IsFirstOfKey(pv_long, i) =>
            \A k \in 1..4 :
                CellOf(pv_full[k], pv_long[i].stock_name, pv_long[i].date)
                    = pv_long[i][MetricColumns[k]]

\* a pivot of a table whose first and last row have the same stock and date
\* and differ in every metric
C5_Witness ==
    /\ pv_pc = "pivoted"
    /\ Len(pv_long) = MaxRows
    /\ pv_long[1].stock_name = pv_long[MaxRows].stock_name
    /\ pv_long[1].date = pv_long[MaxRows].date
    /\ \A k \in 1..4 :
          /\ pv_long[1][MetricColumns[k]] # pv_long[MaxRows][MetricColumns[k]]
          /\ ~isnull(pv_long[1][MetricColumns[k]])
          /\ ~isnull(pv_long[MaxRows][MetricColumns[k]])

\* the stocks with a value of a metric in a long-format table
StocksWithValue(df, value_col) ==
    {df[i].stock_name : i \in {j \in 1..Len(df) : ~isnull(df[j][value_col])}}

NoDuplicateKeys(df) == \A i \in 1..Len(df) : IsFirstOfKey(df, i)

\* C2 as stated: without duplicate (stock_name, date) rows, the merged
\* tables are the tables of the pivot of all rows.
C2_MergeEqualsFullPivot ==
    (pv_pc = "merged" /\ NoDuplicateKeys(pv_long)) => pv_merged = pv_full

\* C2, amended: without duplicate (stock_name, date) rows, each merged table
\* has the columns of the full pivot in the same order, the same stocks and
\* the same value in every cell; its rows are the stocks of the first
\* window in sorted order, then the stocks new in the second window.
C2_MergeEqualsFullPivotUpToRowOrder ==
    (pv_pc = "merged" /\ NoDuplicateKeys(pv_long)) =>
        \A k \in 1..4 :
            /\ SameCells(pv_merged[k], pv_full[k])
            /\ pv_merged[k].index =
                  SortedNames(StocksWithValue(RowsUpTo(pv_long, pv_split), MetricColumns[k]))
                  \o SortedNames(
                        StocksWithValue(RowsAfter(pv_long, pv_split), MetricColumns[k])
                        \ StocksWithValue(RowsUpTo(pv_long, pv_split), MetricColumns[k]))

\* a merge where a stock is only in the second window and sorts before the
\* stock of the first window, and a premium is null
C2_Witness ==
    /\ pv_pc = "merged"
    /\ NoDuplicateKeys(pv_long)
    /\ pv_merged[2].index = <<2, 1>>
    /\ pv_full[2].index = <<1, 2>>
    /\ \E i \in 1..Len(pv_long) : isnull(pv_long[i].HA_premium_rate)

(***************************************************************************)
(* Spec: runs of continuous_monitor.main.                                  *)
(*                                                                         *)
(* The provider holds the set of trading days up to today; it answers the  *)
(* price query with the trading days of the window asked, and may report   *)
(* another price for a day on a later query.  The report file holds the    *)
(* sheets that were written, in the order of SHEET_NAMES; a save that      *)
(* fails leaves the sheets written before the failure.                     *)
(***************************************************************************)
Days == DefaultStartDay..MaxDay

\* the stocks the resolver can put into the pool
MainStocks == 1..MaxPool

\* the (A price, H price) the provider may report for a stock on a day
MainQuotes == {<<Num(2), Num(3)>>, <<Num(0), Num(3)>>}

\* the FX rate of every day
MainRate == Num(2)

NoFile == [exists |-> FALSE, sheets |-> <<>>]

\* latest_trade_day_data while w.tdaysoffset has not been called
NotAsked == [ErrorCode |-> -1, Data |-> <<>>]

Max(S) == CHOOSE x \in S : \A y \in S : y <= x

\* the answer of w.tdaysoffset(0, today): the latest trading day
LatestTradeDay ==
    IF trading_days = {} THEN DefaultStartDay - 1 ELSE Max(trading_days)

\* the start date that is the last date of the file
StartAt(last_label) == strftime(to_datetime(last_label))

\* lines 65-66: the day after the last column of the premium sheet
StartAfter(last_label) == strftime(to_datetime(last_label) + 1)

\* lines 56-74: the start date, the old tables, and the sheet whose read
\* raised (0 if none did)
CheckFile(f) ==
    LET default == strftime(DefaultStartDay)
    IN  IF ~f.exists
        THEN [start |-> default, existing |-> <<>>, failed |-> 0]
        ELSE IF Len(f.sheets) < 1 \/ read_excel(f.sheets[1]).columns = <<>>
        THEN [start |-> default, existing |-> <<>>, failed |-> 1]
        ELSE LET existing_premium == read_excel(f.sheets[1])
                 start == StartAfter(existing_premium.columns[Len(existing_premium.columns)])
             IN  IF Len(f.sheets) < 4
                 THEN [start |-> start, existing |-> <<>>, failed |-> Len(f.sheets) + 1]
                 ELSE [start    |-> start,
                       existing |-> [k \in 1..4 |-> read_excel(f.sheets[k])],
                       failed   |-> 0]

\* a check that never finds the data current
NeverCurrent(start, latest_available_date_str) == FALSE

\* line 84 and line 89: start_date_str > the other date, as strings
StartIsLater(start, latest_available_date_str) ==
    StrGreater(start, latest_available_date_str)

\* lines 52-54
AfterPool(pool) == IF pool = <<>> THEN "done" ELSE "check_file"

\* a run that goes on with an empty fetch result
AfterFetchNoCheck(df) == "merge"

\* lines 96-98
AfterFetch(df) == IF df = EmptyFrame THEN "done" ELSE "merge"

Init ==
    /\ today = DefaultStartDay
    /\ trading_days \in {{}, {DefaultStartDay}}
    /\ WIND_AVAILABLE \in BOOLEAN
    /\ file = NoFile
    /\ pc = "idle"
    /\ runs = 0
    /\ stock_pool = <<>>
    /\ start_date_str = <<>>
    /\ existing_data = <<>>
    /\ latest_trade_day_data = NotAsked
    /\ long_df = EmptyFrame
    /\ final_pivots = <<>>
    /\ file_before = NoFile
    /\ read_failed_at = 0
    /\ fetch_issued = <<>>
    /\ outcome = "none"
    /\ PivotIdle
    /\ PremiumIdle
    /\ PoolIdle
    /\ StatsIdle

\* a day passes; the new day is a trading day or not
AdvanceDay ==
    /\ pc = "idle"
    /\ today < MaxDay
    /\ today' = today + 1
    /\ trading_days' \in {trading_days, trading_days \cup {today + 1}}
    /\ UNCHANGED <<WIND_AVAILABLE, file, pc, runs, locals, history,
                   pivotVars, premiumVars, poolVars, statsVars>>

\* main is started
StartRun ==
    /\ pc = "idle"
    /\ runs < MaxRuns
    /\ runs' = runs + 1
    /\ pc' = "pool"
    /\ file_before' = file
    /\ UNCHANGED <<provider, file, locals, read_failed_at, fetch_issued, outcome,
                   pivotVars, premiumVars, poolVars, statsVars>>

\* lines 49-54: the stock pool, empty when the resolver fails
GetStockPool ==
    /\ pc = "pool"
    /\ \E S \in SUBSET MainStocks :
          /\ stock_pool' = PoolOf(S)
          /\ pc' = AfterPool(PoolOf(S))
          /\ outcome' = IF PoolOf(S) = <<>> THEN "no_pool" ELSE outcome
    /\ UNCHANGED <<provider, file, runs, start_date_str, existing_data,
                   latest_trade_day_data, long_df, final_pivots,
                   file_before, read_failed_at, fetch_issued,
                   pivotVars, premiumVars, poolVars, statsVars>>

\* lines 56-74: the existing report decides the start date
CheckExistingFile ==
    /\ pc = "check_file"
    /\ start_date_str' = CheckFile(file).start
    /\ existing_data' = CheckFile(file).existing
    /\ read_failed_at' = CheckFile(file).failed
    /\ pc' = "check_latest"
    /\ UNCHANGED <<provider, file, runs, stock_pool, latest_trade_day_data,
                   long_df, final_pivots, file_before, fetch_issued, outcome,
                   pivotVars, premiumVars, poolVars, statsVars>>

\* lines 76-92: the run ends if there is no new trading day to fetch
CheckLatestTradeDay ==
    /\ pc = "check_latest"
    /\ \E err \in {0, 1} :
          /\ latest_trade_day_data' =
                IF ~WIND_AVAILABLE THEN NotAsked
                ELSE [ErrorCode |-> err,
                      Data |-> IF err = 0 THEN <<<<LatestTradeDay>>>> ELSE <<>>]
          /\ LET current ==
                    \/ /\ WIND_AVAILABLE
                       /\ err = 0
                       /\ StartIsLater(start_date_str, strftime(LatestTradeDay))
                    \/ StartIsLater(start_date_str, strftime(today))
             IN  /\ pc' = IF current THEN "done" ELSE "fetch"
                 /\ outcome' = IF current THEN "current" ELSE outcome
    /\ UNCHANGED <<provider, file, runs, stock_pool, start_date_str, existing_data,
                   long_df, final_pivots, file_before, read_failed_at, fetch_issued,
                   pivotVars, premiumVars, poolVars, statsVars>>

\* the trading days from the start date to today
Window == {d \in trading_days : to_datetime(start_date_str) <= d /\ d <= today}

\* the stocks of the pool
PoolStocks == {stock_pool[i].stock_name : i \in 1..Len(stock_pool)}

\* lines 94-98: get_ah_premium_data for the window
FetchNewData ==
    /\ pc = "fetch"
    /\ \E err \in {0, 1}, quotes \in [PoolStocks \X Window -> MainQuotes] :
          LET values == [cd \in Range(AllCodes(stock_pool)) \X Window |->
                            IF cd[1] < 200 THEN quotes[cd[1] - 100, cd[2]][1]
                                           ELSE quotes[cd[1] - 200, cd[2]][2]]
              price_data == WsdAnswer(err, AllCodes(stock_pool),
                                IF err = 0 THEN Window ELSE {}, values)
              exchange_rate_data == WsdAnswer(0, <<FxCode>>, Window,
                                        [cd \in {FxCode} \X Window |-> MainRate])
              df == get_ah_premium_data(WIND_AVAILABLE, stock_pool,
                                        price_data, exchange_rate_data)
          IN  /\ long_df' = df
              /\ pc' = AfterFetch(df)
              /\ outcome' = IF df = EmptyFrame THEN "no_data" ELSE outcome
    /\ fetch_issued' = IF WIND_AVAILABLE
                       THEN <<start_date_str, strftime(today)>> ELSE <<>>
    /\ UNCHANGED <<provider, file, runs, stock_pool, start_date_str, existing_data,
                   latest_trade_day_data, final_pivots, file_before, read_failed_at,
                   pivotVars, premiumVars, poolVars, statsVars>>

\* lines 100-114: the new tables, merged with the old ones if there are any
PivotAndMerge ==
    /\ pc = "merge"
    /\ final_pivots' = MergePivots(existing_data, NewPivots(long_df))
    /\ pc' = "save"
    /\ UNCHANGED <<provider, file, runs, stock_pool, start_date_str, existing_data,
                   latest_trade_day_data, long_df, history,
                   pivotVars, premiumVars, poolVars, statsVars>>

\* lines 116-124: the sheets are written in order; an exception ends the
\* writing and is caught
SaveReport ==
    /\ pc = "save"
    /\ \E written \in 0..4 :
          /\ file' = [exists |-> TRUE, sheets |-> SubSeq(final_pivots, 1, written)]
          /\ outcome' = IF written = 4 THEN "saved" ELSE "save_failed"
    /\ pc' = "done"
    /\ UNCHANGED <<provider, runs, locals, file_before, read_failed_at, fetch_issued,
                   pivotVars, premiumVars, poolVars, statsVars>>

\* main returns
FinishRun ==
    /\ pc = "done"
    /\ pc' = "idle"
    /\ stock_pool' = <<>>
    /\ start_date_str' = <<>>
    /\ existing_data' = <<>>
    /\ latest_trade_day_data' = NotAsked
    /\ long_df' = EmptyFrame
    /\ final_pivots' = <<>>
    /\ file_before' = NoFile
    /\ read_failed_at' = 0
    /\ fetch_issued' = <<>>
    /\ outcome' = "none"
    /\ UNCHANGED <<provider, file, runs, pivotVars, premiumVars, poolVars, statsVars>>

Next ==
    \/ AdvanceDay
    \/ StartRun
    \/ GetStockPool
    \/ CheckExistingFile
    \/ CheckLatestTradeDay
    \/ FetchNewData
    \/ PivotAndMerge
    \/ SaveReport
    \/ FinishRun

Spec == Init /\ [][Next]_vars

(***************************************************************************)
(* Claims about continuous_monitor.main (Spec).                            *)
(***************************************************************************)
\* the run has passed the check of the existing file
StartKnown == pc \in {"check_latest", "fetch", "merge", "save", "done"}
              /\ start_date_str # <<>>

\* the run has written the file
FileWritten == pc = "done" /\ final_pivots # <<>>

\* C3: a run that ends without a fetch result (the stock pool is empty, the
\* data is current, or the fetch result is empty) leaves the report file as
\* it was before the run.
C3_EarlyReturnLeavesFile ==
    (pc = "done" /\ long_df = EmptyFrame) => file = file_before

\* a run over a complete report that ends on an empty fetch result
C3_Witness ==
    /\ pc = "done"
    /\ outcome = "no_data"
    /\ fetch_issued # <<>>
    /\ Len(file_before.sheets) = 4
    /\ file = file_before

\* C4 as stated: when a read of the existing report fails, on whichever
\* sheet, nothing is merged and the fetch starts from the default start date.
C4_ReadFailureRegenerates ==
    (StartKnown /\ read_failed_at # 0) =>
        /\ existing_data = <<>>
        /\ start_date_str = strftime(DefaultStartDay)

\* C6 as stated: the four tables of a written report have the same set of
\* date columns.
C6_SameDateColumns ==
    (FileWritten /\ outcome = "saved") =>
        \A k \in 1..4 : Range(file.sheets[k].columns) = Range(file.sheets[1].columns)

\* C7: without a report the start date is the default start date; with a
\* report that is read without failure it is the day after the last column
\* of its premium sheet; the price query asks for the start date to today.
C7_StartDate ==
    StartKnown =>
        /\ ~file_before.exists => start_date_str = strftime(DefaultStartDay)
        /\ (file_before.exists /\ read_failed_at = 0) =>
              to_datetime(start_date_str) =
                  to_datetime(file_before.sheets[1].columns[
                                  Len(file_before.sheets[1].columns)]) + 1
        /\ fetch_issued # <<>> => fetch_issued = <<start_date_str, strftime(today)>>

\* an incremental run that fetched day 10 alone after a report ending on day 09
C7_Witness ==
    /\ pc = "done"
    /\ outcome = "saved"
    /\ read_failed_at = 0
    /\ Len(file_before.sheets) = 4
    /\ file_before.sheets[1].columns[Len(file_before.sheets[1].columns)] = <<0, 9>>
    /\ fetch_issued = <<<<1, 0>>, <<1, 0>>>>

C9_ExistingCellsKept ==
    (FileWritten /\ existing_data # <<>>) =>
        \A k \in 1..Len(file.sheets) :
            \A s \in Range(file_before.sheets[k].index),
               label \in Range(file_before.sheets[k].columns) :
                CellOf(file.sheets[k], s, label) = CellOf(file_before.sheets[k], s, label)

\* a merge where the provider reported another A price for a date the
\* report already held
C9_Witness ==
    /\ FileWritten
    /\ existing_data # <<>>
    /\ outcome = "saved"
    /\ \E c1 \in 1..Len(file_before.sheets[2].columns),
          c2 \in 1..Len(file.sheets[2].columns) :
          /\ c1 < c2
          /\ file.sheets[2].columns[c1] = file.sheets[2].columns[c2]
          /\ \E i \in 1..Len(file.sheets[2].index) :
                /\ ~isnull(file.sheets[2].values[c1][i])
                /\ ~isnull(file.sheets[2].values[c2][i])
                /\ file.sheets[2].values[c1][i] # file.sheets[2].values[c2][i]

\* C17: in each table of the report file the date columns are in strictly
\* ascending order, so no date appears twice, whatever runs came before
\* (the provider reports only days of the window asked).
C17_DateColumnsAscending ==
    \A k \in 1..Len(file.sheets) :
        \A c \in 1..(Len(file.sheets[k].columns) - 1) :
            StrLess(file.sheets[k].columns[c], file.sheets[k].columns[c + 1])

(***************************************************************************)
(* SpecPool: one call of get_ah_shhk_connect_stocks(), step by step.  The  *)
(* provider lists the H shares HCode(1)..HCode(NumListed); a w.wset answer *)
(* holds ErrorCode, Fields and Data (one list of values per field), a      *)
(* w.wss answer holds ErrorCode, Codes and Data.  An answer with an error  *)
(* code may carry a payload or not.                                        *)
(***************************************************************************)
Listed == 1..NumListed

\* the A-share code of an H share without A share
None == 0

\* the answer of w.wset("sectorconstituent", ...) listing the stocks of S
WsetAnswer(err, has_wind_code, S) ==
    LET names == SortedNames(S)
        codes == [i \in 1..Len(names) |-> HCode(names[i])]
    IN  [ErrorCode |-> err,
         Fields    |-> IF has_wind_code THEN <<"wind_code", "sec_name">>
                                        ELSE <<"sec_name">>,
         Data      |-> IF has_wind_code THEN <<codes, names>> ELSE <<names>>]

\* the answer of w.wss(codes, "asharewindcode"): one A code, or None, per code
WssAnswer(err, codes, has_a) ==
    [ErrorCode |-> err,
     Codes     |-> codes,
     Data      |-> <<[i \in 1..Len(codes) |->
                        IF has_a[codes[i]] THEN ACode(codes[i] - 200) ELSE None]>>]

\* an error check that lets every answer pass
WindErrorNever(data) == FALSE

\* lines 63, 74, 89 and 114: the error check of every query
WindError(data) == data.ErrorCode # 0

\* pd.DataFrame(Data, index=Fields).T: one row per listed stock
WsetFrame(data) ==
    [columns |-> data.Fields,
     rows    |-> [i \in 1..Len(data.Data[1]) |->
                    [f \in Range(data.Fields) |->
                        data.Data[Position(data.Fields, f)][i]]]]

\* lines 80 and 95
HasWindCode(df) == "wind_code" \in Range(df.columns)

\* set(df['wind_code'])
CodeSet(df) == {df.rows[i]["wind_code"] : i \in 1..Len(df.rows)}

\* line 103
IntersectionCodes(ah_stock_codes, shhk_connect_codes) ==
    SortedNames(ah_stock_codes \cap shhk_connect_codes)

\* the stock_name of the left merge with name_map_df
NameOf(ah_df, h) ==
    LET names == {ah_df.rows[i]["sec_name"] :
                    i \in {k \in 1..Len(ah_df.rows) : ah_df.rows[k]["wind_code"] = h}}
    IN  IF names = {} THEN None ELSE CHOOSE n \in names : TRUE

\* lines 120-131: temp_df merged with the names of ah_df
MergeNames(intersection_codes, stock_info_data, ah_df) ==
    [i \in 1..Len(intersection_codes) |->
        [H_stock_code |-> intersection_codes[i],
         A_stock_code |-> stock_info_data.Data[1][i],
         stock_name   |-> NameOf(ah_df, intersection_codes[i])]]

\* a pool that keeps the entries without A code
DropnaACodeNever(final_df) == final_df

\* line 133: final_df.dropna(subset=['A_stock_code'], inplace=True)
DropnaACode(final_df) == SelectSeq(final_df, LAMBDA r : r.A_stock_code # None)

PlInit ==
    /\ pl_pc = "connect"
    /\ pl_connect = "none"
    /\ pl_trade_day_data = NotAsked
    /\ pl_ah_stocks_data = NotAsked
    /\ pl_shhk_connect_data = NotAsked
    /\ pl_intersection_codes = <<>>
    /\ pl_stock_info_data = NotAsked
    /\ pl_final_df = EmptyFrame
    /\ PivotIdle
    /\ PremiumIdle
    /\ MainIdle
    /\ StatsIdle

\* lines 47-57: the import of WindPy and w.start()
PlConnect ==
    /\ pl_pc = "connect"
    /\ \E result \in {"ok", "ImportError", "Exception"} :
          /\ pl_connect' = result
          /\ pl_pc' = IF result = "ok" THEN "tdaysoffset" ELSE "done"
    /\ UNCHANGED <<pl_trade_day_data, pl_ah_stocks_data, pl_shhk_connect_data,
                   pl_intersection_codes, pl_stock_info_data, pl_final_df,
                   pivotVars, premiumVars, mainVars, statsVars>>

\* lines 61-67: the latest trading day; Data[0][0] of an answer without
\* Data raises IndexError
PlLatestTradeDay ==
    /\ pl_pc = "tdaysoffset"
    /\ \E err \in {0, 1}, data \in {<<>>} \cup {<<<<day>>>> : day \in Days} :
          /\ pl_trade_day_data' = [ErrorCode |-> err, Data |-> data]
          /\ pl_pc' = IF WindError([ErrorCode |-> err, Data |-> data]) THEN "done"
                      ELSE IF data = <<>> THEN "raised"
                      ELSE "wset_ah"
    /\ UNCHANGED <<pl_connect, pl_ah_stocks_data, pl_shhk_connect_data,
                   pl_intersection_codes, pl_stock_info_data, pl_final_df,
                   pivotVars, premiumVars, mainVars, statsVars>>

\* lines 71-84: the dual-listed H shares
PlAhStocks ==
    /\ pl_pc = "wset_ah"
    /\ \E err \in {0, 1}, has_wind_code \in BOOLEAN, S \in SUBSET Listed :
          LET ah_stocks_data == WsetAnswer(err, has_wind_code, S)
          IN  /\ pl_ah_stocks_data' = ah_stocks_data
              /\ pl_pc' = IF WindError(ah_stocks_data) THEN "done"
                          ELSE IF ~HasWindCode(WsetFrame(ah_stocks_data)) THEN "done"
                          ELSE "wset_shhk"
    /\ UNCHANGED <<pl_connect, pl_trade_day_data, pl_shhk_connect_data,
                   pl_intersection_codes, pl_stock_info_data, pl_final_df,
                   pivotVars, premiumVars, mainVars, statsVars>>

\* lines 86-99: the H shares of the southbound Stock Connect
PlShhkConnect ==
    /\ pl_pc = "wset_shhk"
    /\ \E err \in {0, 1}, has_wind_code \in BOOLEAN, S \in SUBSET Listed :
          LET shhk_connect_data == WsetAnswer(err, has_wind_code, S)
          IN  /\ pl_shhk_connect_data' = shhk_connect_data
              /\ pl_pc' = IF WindError(shhk_connect_data) THEN "done"
                          ELSE IF ~HasWindCode(WsetFrame(shhk_connect_data)) THEN "done"
                          ELSE "intersect"
    /\ UNCHANGED <<pl_connect, pl_trade_day_data, pl_ah_stocks_data,
                   pl_intersection_codes, pl_stock_info_data, pl_final_df,
                   pivotVars, premiumVars, mainVars, statsVars>>

\* lines 101-107: the codes of both lists, sorted
PlIntersect ==
    /\ pl_pc = "intersect"
    /\ pl_intersection_codes' =
          IntersectionCodes(CodeSet(WsetFrame(pl_ah_stocks_data)),
                            CodeSet(WsetFrame(pl_shhk_connect_data)))
    /\ pl_pc' = IF pl_intersection_codes' = <<>> THEN "done" ELSE "wss"
    /\ UNCHANGED <<pl_connect, pl_trade_day_data, pl_ah_stocks_data,
                   pl_shhk_connect_data, pl_stock_info_data, pl_final_df,
                   pivotVars, premiumVars, mainVars, statsVars>>

\* lines 109-116: the A code of each H share of the intersection
PlStockInfo ==
    /\ pl_pc = "wss"
    /\ \E err \in {0, 1}, has_a \in [Range(pl_intersection_codes) -> BOOLEAN] :
          LET stock_info_data == WssAnswer(err, pl_intersection_codes, has_a)
          IN  /\ pl_stock_info_data' = stock_info_data
              /\ pl_pc' = IF WindError(stock_info_data) THEN "done" ELSE "build"
    /\ UNCHANGED <<pl_connect, pl_trade_day_data, pl_ah_stocks_data,
                   pl_shhk_connect_data, pl_intersection_codes, pl_final_df,
                   pivotVars, premiumVars, mainVars, statsVars>>

\* lines 118-136: the pool is put together and returned
PlBuild ==
    /\ pl_pc = "build"
    /\ pl_final_df' = DropnaACode(MergeNames(pl_intersection_codes, pl_stock_info_data,
                                             WsetFrame(pl_ah_stocks_data)))
    /\ pl_pc' = "done"
    /\ UNCHANGED <<pl_connect, pl_trade_day_data, pl_ah_stocks_data,
                   pl_shhk_connect_data, pl_intersection_codes, pl_stock_info_data,
                   pivotVars, premiumVars, mainVars, statsVars>>

PlNext ==
    \/ PlConnect
    \/ PlLatestTradeDay
    \/ PlAhStocks
    \/ PlShhkConnect
    \/ PlIntersect
    \/ PlStockInfo
    \/ PlBuild

SpecPool == PlInit /\ [][PlNext]_vars

(***************************************************************************)
(* Claims about get_ah_shhk_connect_stocks (SpecPool).                     *)
(***************************************************************************)
\* the H codes a membership answer lists
ListedCodes(data) ==
    IF data = NotAsked \/ data.ErrorCode # 0 \/ "wind_code" \notin Range(data.Fields)
    THEN {}
    ELSE Range(data.Data[Position(data.Fields, "wind_code")])

\* the A code the lookup reported for an H code, None if it reported none
Lookup(h) ==
    IF pl_stock_info_data = NotAsked
       \/ ~\E i \in 1..Len(pl_stock_info_data.Codes) : pl_stock_info_data.Codes[i] = h
    THEN None
    ELSE pl_stock_info_data.Data[1][CHOOSE i \in 1..Len(pl_stock_info_data.Codes) :
                                       pl_stock_info_data.Codes[i] = h]

\* a query that was issued and answered with a non-zero error code
Errored(data) == data # NotAsked /\ data.ErrorCode # 0

\* C11: when no query fails, the pool that get_ah_shhk_connect_stocks
\* returns holds, once each, exactly the H codes that are in the AH list
\* and in the Stock-Connect list and for which the lookup reported an A
\* code; every entry carries that A code, so no entry has a null A code.
C11_PoolIsResolvedIntersection ==
    (/\ pl_pc = "done"
     /\ pl_shhk_connect_data # NotAsked
     /\ ~Errored(pl_shhk_connect_data)
     /\ ~Errored(pl_stock_info_data)) =>
        /\ {pl_final_df[i].H_stock_code : i \in 1..Len(pl_final_df)}
              = {h \in ListedCodes(pl_ah_stocks_data) \cap ListedCodes(pl_shhk_connect_data) :
                    Lookup(h) # None}
        /\ \A i \in 1..Len(pl_final_df) :
              /\ pl_final_df[i].A_stock_code # None
              /\ pl_final_df[i].A_stock_code = Lookup(pl_final_df[i].H_stock_code)
        /\ \A i, j \in 1..Len(pl_final_df) :
              i # j => pl_final_df[i].H_stock_code # pl_final_df[j].H_stock_code

\* a pool out of an AH list of three H shares of which two are in the
\* Stock-Connect list, one of the two without A code
C11_Witness ==
    /\ pl_pc = "done"
    /\ ListedCodes(pl_ah_stocks_data) = {HCode(1), HCode(2), HCode(3)}
    /\ ListedCodes(pl_shhk_connect_data) = {HCode(2), HCode(3)}
    /\ Lookup(HCode(2)) = None
    /\ Lookup(HCode(3)) = ACode(3)
    /\ Len(pl_final_df) = 1

\* C13: get_ah_shhk_connect_stocks returns the empty pool when the
\* connection fails and when the latest-trading-day query, the AH query,
\* the Stock-Connect query or the A-code lookup answers with a non-zero
\* error code; it returns at once, without a further query, and a pool
\* with entries is returned only after all four queries answered with
\* error code 0.
C13_ErrorReturnsEmpty ==
    /\ pl_connect \in {"ImportError", "Exception"} =>
          /\ pl_pc = "done"
          /\ pl_trade_day_data = NotAsked
          /\ pl_final_df = EmptyFrame
    /\ Errored(pl_trade_day_data) =>
          /\ pl_pc = "done"
          /\ pl_ah_stocks_data = NotAsked
          /\ pl_final_df = EmptyFrame
    /\ Errored(pl_ah_stocks_data) =>
          /\ pl_pc = "done"
          /\ pl_shhk_connect_data = NotAsked
          /\ pl_final_df = EmptyFrame
    /\ Errored(pl_shhk_connect_data) =>
          /\ pl_pc = "done"
          /\ pl_stock_info_data = NotAsked
          /\ pl_final_df = EmptyFrame
    /\ Errored(pl_stock_info_data) =>
          /\ pl_pc = "done"
          /\ pl_final_df = EmptyFrame
    /\ pl_final_df # EmptyFrame =>
          /\ pl_connect = "ok"
          /\ pl_trade_day_data.ErrorCode = 0
          /\ pl_ah_stocks_data.ErrorCode = 0
          /\ pl_shhk_connect_data.ErrorCode = 0
          /\ pl_stock_info_data.ErrorCode = 0

\* a call whose A-code lookup, the last query, answers with an error code
\* next to the A codes of two H shares
C13_Witness ==
    /\ pl_pc = "done"
    /\ Len(pl_intersection_codes) = 2
    /\ pl_stock_info_data # NotAsked
    /\ pl_stock_info_data.ErrorCode = 1
    /\ \A i \in 1..2 : pl_stock_info_data.Data[1][i] # None

(***************************************************************************)
(* calculate_premium_statistics (get_history_premium_data.py).  Only the   *)
(* group keys and HA_premium_rate of a row are read.  premium_std, the     *)
(* square root of the sample variance, is no fraction and is left out.     *)
(***************************************************************************)
\* a + b and a * b on finite floats
FAdd(a, b) == Normalize(a[1] * b[2] + b[1] * a[2], a[2] * b[2])
FMul(a, b) == Normalize(a[1] * b[1], a[2] * b[2])

\* a <= b and a < b on floats; a comparison with NaN is false
FLeq(a, b) == ~isnull(a) /\ ~isnull(b) /\ a[1] * b[2] <= b[1] * a[2]
FLess(a, b) == FLeq(a, b) /\ a # b

\* the key of the group of a row
KeyOf(r) == [stock_name   |-> r.stock_name,
             A_stock_code |-> r.A_stock_code,
             H_stock_code |-> r.H_stock_code]

\* the keys of the groups that hold a premium
GroupKeysWithValue(premium_df) ==
    {KeyOf(premium_df[i]) :
        i \in {k \in 1..Len(premium_df) : ~isnull(premium_df[k].HA_premium_rate)}}

\* groupby(['stock_name', 'A_stock_code', 'H_stock_code']): the keys
GroupKeys(premium_df) == {KeyOf(premium_df[i]) : i \in 1..Len(premium_df)}

KeyBefore(a, b) ==
    \/ a.stock_name < b.stock_name
    \/ a.stock_name = b.stock_name /\ a.A_stock_code < b.A_stock_code
    \/ a.stock_name = b.stock_name /\ a.A_stock_code = b.A_stock_code
       /\ a.H_stock_code < b.H_stock_code

\* the keys in the order of the result (groupby sorts its keys)
RECURSIVE SortKeys(_)
SortKeys(S) ==
    IF S = {} THEN <<>>
    ELSE LET m == CHOOSE x \in S : \A y \in S : y = x \/ KeyBefore(x, y)
         IN  <<m>> \o SortKeys(S \ {m})

\* the premiums of a group that an aggregation reads: the null ones are
\* skipped
RECURSIVE GroupValues(_, _)
GroupValues(premium_df, key) ==
    IF premium_df = <<>> THEN <<>>
    ELSE IF KeyOf(Head(premium_df)) = key /\ ~isnull(Head(premium_df).HA_premium_rate)
         THEN <<Head(premium_df).HA_premium_rate>> \o GroupValues(Tail(premium_df), key)
         ELSE GroupValues(Tail(premium_df), key)

\* values in ascending order
RECURSIVE SortValues(_)
SortValues(vs) ==
    IF vs = <<>> THEN <<>>
    ELSE LET rest == SortValues(Tail(vs))
             k    == Cardinality({i \in 1..Len(rest) : FLess(rest[i], Head(vs))})
         IN  SubSeq(rest, 1, k) \o <<Head(vs)>> \o SubSeq(rest, k + 1, Len(rest))

RECURSIVE Sum(_)
Sum(vs) == IF vs = <<>> THEN Num(0) ELSE FAdd(Head(vs), Sum(Tail(vs)))

\* 'mean'
Mean(vs) == IF vs = <<>> THEN NaN ELSE FDiv(Sum(vs), Num(Len(vs)))

\* a median that takes the lower of two middle values
MedianLower(vs) ==
    IF vs = <<>> THEN NaN ELSE SortValues(vs)[(Len(vs) + 1) \div 2]

\* 'median': the middle value, or the mean of the two middle values
Median(vs) ==
    IF vs = <<>> THEN NaN
    ELSE LET sorted == SortValues(vs)
             n      == Len(vs)
         IN  IF n % 2 = 1 THEN sorted[(n + 1) \div 2]
             ELSE FDiv(FAdd(sorted[n \div 2], sorted[n \div 2 + 1]), Num(2))

\* 'min' and 'max'
GroupMin(vs) == IF vs = <<>> THEN NaN ELSE SortValues(vs)[1]
GroupMax(vs) == IF vs = <<>> THEN NaN ELSE SortValues(vs)[Len(vs)]

\* x.quantile(q) for q = q_num / q_den: linear interpolation between the
\* values next to the position (n - 1) * q
Quantile(vs, q_num, q_den) ==
    IF vs = <<>> THEN NaN
    ELSE LET sorted == SortValues(vs)
             pos    == (Len(vs) - 1) * q_num
             lo     == pos \div q_den
             rem    == pos % q_den
         IN  IF rem = 0 THEN sorted[lo + 1]
             ELSE FAdd(sorted[lo + 1],
                       FMul(FSub(sorted[lo + 2], sorted[lo + 1]), <<rem, q_den>>))

\* the row of a group: lines 45-73
StatsRow(premium_df, key) ==
    LET vs == GroupValues(premium_df, key)
    IN  [stock_name     |-> key.stock_name,
         A_stock_code   |-> key.A_stock_code,
         H_stock_code   |-> key.H_stock_code,
         premium_mean   |-> Mean(vs),
         premium_median |-> Median(vs),
         premium_min    |-> GroupMin(vs),
         premium_max    |-> GroupMax(vs),
         premium_p5     |-> Quantile(vs, 5, 100),
         premium_p95    |-> Quantile(vs, 95, 100)]

\* lines 27-76; is_none: premium_df is None
calculate_premium_statistics(is_none, premium_df) ==
    IF is_none \/ premium_df = <<>> THEN EmptyFrame
    ELSE LET keys == SortKeys(GroupKeys(premium_df))
         IN  [i \in 1..Len(keys) |-> StatsRow(premium_df, keys[i])]

(***************************************************************************)
(* SpecStats: one call of calculate_premium_statistics on None or on a     *)
(* table of up to MaxStatRows rows.  The rows are appended stock by stock  *)
(* and, for a stock, in the order of StatPremiums: one order for every     *)
(* multiset of rows (the keys are sorted and a group's values are sorted   *)
(* or summed, so the position of a row makes no difference).               *)
(***************************************************************************)
\* the premiums of a row: null, and 0.1, 0.2, 0.3, 0.4, 0.5
StatPremiums == <<NaN, <<1, 10>>, <<1, 5>>, <<3, 10>>, <<2, 5>>, <<1, 2>>>>

StatRow(s, k) ==
    [stock_name      |-> s,
     A_stock_code    |-> ACode(s),
     H_stock_code    |-> HCode(s),
     HA_premium_rate |-> StatPremiums[k]]

\* the row may follow the rows of df
MayFollow(df, s, k) ==
    IF df = <<>> THEN TRUE
    ELSE IF df[Len(df)].stock_name # s THEN df[Len(df)].stock_name < s
    ELSE \E j \in 1..k : StatPremiums[j] = df[Len(df)].HA_premium_rate

StInit ==
    /\ st_pc = "input"
    /\ st_none \in BOOLEAN
    /\ st_df = <<>>
    /\ st_stats = EmptyFrame
    /\ PivotIdle
    /\ PremiumIdle
    /\ MainIdle
    /\ PoolIdle

\* one more row of the detailed data
StAppend ==
    /\ st_pc = "input"
    /\ ~st_none
    /\ Len(st_df) < MaxStatRows
    /\ \E s \in Stocks, k \in 1..Len(StatPremiums) :
          /\ MayFollow(st_df, s, k)
          /\ st_df' = Append(st_df, StatRow(s, k))
    /\ UNCHANGED <<st_pc, st_none, st_stats,
                   pivotVars, premiumVars, mainVars, poolVars>>

\* the call
StCalculate ==
    /\ st_pc = "input"
    /\ st_stats' = calculate_premium_statistics(st_none, st_df)
    /\ st_pc' = "done"
    /\ UNCHANGED <<st_none, st_df, pivotVars, premiumVars, mainVars, poolVars>>

StNext == StAppend \/ StCalculate

SpecStats == StInit /\ [][StNext]_vars

(***************************************************************************)
(* Claims about calculate_premium_statistics (SpecStats).                  *)
(***************************************************************************)
\* C14: calculate_premium_statistics returns one row, and only one, for
\* every (stock_name, A_stock_code, H_stock_code) that a row of the input
\* has, and no other row; for None and for an empty table it returns the
\* empty result.
C14_OneRowPerGroup ==
    st_pc = "done" =>
        IF st_none \/ st_df = <<>>
        THEN st_stats = EmptyFrame
        ELSE /\ \A r \in 1..Len(st_df) :
                   Cardinality({i \in 1..Len(st_stats) :
                       /\ st_stats[i].stock_name = st_df[r].stock_name
                       /\ st_stats[i].A_stock_code = st_df[r].A_stock_code
                       /\ st_stats[i].H_stock_code = st_df[r].H_stock_code}) = 1
             /\ \A i \in 1..Len(st_stats) :
                   \E r \in 1..Len(st_df) :
                       /\ st_stats[i].stock_name = st_df[r].stock_name
                       /\ st_stats[i].A_stock_code = st_df[r].A_stock_code
                       /\ st_stats[i].H_stock_code = st_df[r].H_stock_code

\* a table of two stocks with several rows each, one stock with null
\* premiums only, and its two summary rows
C14_Witness ==
    /\ st_pc = "done"
    /\ Len(st_df) >= 4
    /\ \E r \in 1..Len(st_df) : st_df[r].stock_name = 1
    /\ \A r \in 1..Len(st_df) :
          st_df[r].stock_name = 1 => isnull(st_df[r].HA_premium_rate)
    /\ Cardinality({r \in 1..Len(st_df) : st_df[r].stock_name = 2}) >= 2
    /\ Len(st_stats) = 2

\* the rows of the input that hold a premium of the group of a summary row
PremiumRowsOf(row) ==
    {r \in 1..Len(st_df) :
        /\ st_df[r].stock_name = row.stock_name
        /\ st_df[r].A_stock_code = row.A_stock_code
        /\ st_df[r].H_stock_code = row.H_stock_code
        /\ ~isnull(st_df[r].HA_premium_rate)}

\* the sum of premium - mean over the rows 1..n that are in R
RECURSIVE SumOfDeviations(_, _, _)
SumOfDeviations(R, mean, n) ==
    IF n = 0 THEN Num(0)
    ELSE FAdd(SumOfDeviations(R, mean, n - 1),
              IF n \in R THEN FSub(st_df[n].HA_premium_rate, mean) ELSE Num(0))

\* m is the 50th percentile of the premiums of the rows R: a premium with
\* less than half of the premiums on either side, or the midpoint of two
\* neighbouring premiums that have half of the premiums on either side
IsMedian(m, R) ==
    LET below == {r \in R : FLess(st_df[r].HA_premium_rate, m)}
        above == {r \in R : FLess(m, st_df[r].HA_premium_rate)}
    IN  IF \E r \in R : st_df[r].HA_premium_rate = m
        THEN /\ 2 * Cardinality(below) < Cardinality(R)
             /\ 2 * Cardinality(above) < Cardinality(R)
        ELSE /\ 2 * Cardinality(below) = Cardinality(R)
             /\ 2 * Cardinality(above) = Cardinality(R)
             /\ \E a \in below, b \in above :
                   /\ \A r \in below : FLeq(st_df[r].HA_premium_rate,
                                            st_df[a].HA_premium_rate)
                   /\ \A r \in above : FLeq(st_df[b].HA_premium_rate,
                                            st_df[r].HA_premium_rate)
                   /\ FAdd(st_df[a].HA_premium_rate, st_df[b].HA_premium_rate)
                         = FMul(Num(2), m)

\* the statistics of a summary row are those of the premiums of the rows R
StatisticsOf(row, R) ==
    /\ \E r \in R : st_df[r].HA_premium_rate = row.premium_min
    /\ \A r \in R : FLeq(row.premium_min, st_df[r].HA_premium_rate)
    /\ \E r \in R : st_df[r].HA_premium_rate = row.premium_max
    /\ \A r \in R : FLeq(st_df[r].HA_premium_rate, row.premium_max)
    /\ IsMedian(row.premium_median, R)
    /\ ~isnull(row.premium_mean)
    /\ SumOfDeviations(R, row.premium_mean, Len(st_df)) = Num(0)
    /\ FLeq(row.premium_min, row.premium_p5)
    /\ FLeq(row.premium_p5, row.premium_median)
    /\ FLeq(row.premium_median, row.premium_p95)
    /\ FLeq(row.premium_p95, row.premium_max)

\* the premiums of the rows R are 0.1, 0.2, 0.3, 0.4 and 0.5, once each
IsExample(R) ==
    /\ Cardinality(R) = 5
    /\ {st_df[r].HA_premium_rate : r \in R}
          = {<<1, 10>>, <<1, 5>>, <<3, 10>>, <<2, 5>>, <<1, 2>>}

\* mean 0.3, median 0.3, min 0.1, max 0.5
ExampleStatistics(row) ==
    /\ row.premium_mean = <<3, 10>>
    /\ row.premium_median = <<3, 10>>
    /\ row.premium_min = <<1, 10>>
    /\ row.premium_max = <<1, 2>>

\* C15 as stated: for every group, premium_min and premium_max are the
\* smallest and the largest premium of the group, premium_median is the
\* 50th percentile and premium_mean the arithmetic mean of its premiums
\* (mean 0.3, median 0.3, min 0.1, max 0.5 for 0.1, ..., 0.5), and
\* premium_min <= premium_p5 <= premium_median <= premium_p95 <= premium_max.
C15_EveryGroupOrdered ==
    st_pc = "done" =>
        \A i \in 1..Len(st_stats) :
            /\ StatisticsOf(st_stats[i], PremiumRowsOf(st_stats[i]))
            /\ IsExample(PremiumRowsOf(st_stats[i])) => ExampleStatistics(st_stats[i])

\* C15, amended: the same for every group that has a premium that is not
\* null, over the premiums of the group that are not null; a group whose
\* premiums are all null has null statistics.
C15_GroupsWithPremiumOrdered ==
    st_pc = "done" =>
        \A i \in 1..Len(st_stats) :
            IF PremiumRowsOf(st_stats[i]) # {}
            THEN /\ StatisticsOf(st_stats[i], PremiumRowsOf(st_stats[i]))
                 /\ IsExample(PremiumRowsOf(st_stats[i]))
                       => ExampleStatistics(st_stats[i])
            ELSE /\ isnull(st_stats[i].premium_mean)
                 /\ isnull(st_stats[i].premium_median)
                 /\ isnull(st_stats[i].premium_min)
                 /\ isnull(st_stats[i].premium_max)
                 /\ isnull(st_stats[i].premium_p5)
                 /\ isnull(st_stats[i].premium_p95)

\* the summary of a stock with the premiums 0.1, 0.2, 0.3, 0.4 and 0.5
C15_Witness ==
    /\ st_pc = "done"
    /\ Len(st_stats) = 1
    /\ IsExample(PremiumRowsOf(st_stats[1]))
    /\ st_stats[1].premium_mean = <<3, 10>>
    /\ st_stats[1].premium_p5 = <<3, 25>>

====
